---- MODULE Spec2Model ----
(***************************************************************************)
(* Model of the Python analysis server: the Flask routes of app.py and the *)
(* three scorer services (sentiment, voice, facial).                       *)
(*                                                                         *)
(* Conventions.                                                            *)
(*  - A text is a sequence of lexemes: a lexeme is either a maximal run of *)
(*    word characters (a "word", kept as a TLA+ string) or one non-word    *)
(*    character (" ", ",", ".").  Every Python string has exactly one such *)
(*    decomposition, and no two words are adjacent in it.                  *)
(*  - A JSON value is a record [t, s, n]: t is the Python type, s the      *)
(*    lexemes of a str, n the number (in tenths) or the length of a list.  *)
(*  - Scores are integers: thousandths where the code rounds to 3 digits,  *)
(*    ten-thousandths where it rounds to 4, tenths for words per minute.   *)
(*  - An error message is a sequence of parts, the parts of the f-string.  *)
(***************************************************************************)
EXTENDS Integers, Sequences, FiniteSets, TLC

VARIABLES
    sentiment_service,  \* app.py:22, the lexicon sets of the instance
    voice_service,      \* app.py:23
    facial_service,     \* app.py:24
    request,            \* the HTTP request being served, or NoRequest
    response,           \* the HTTP response to it, or NoResponse
    invoked,            \* the scorers called while serving the request
    server_log,         \* the lines logger.error wrote while serving it
    call,               \* a direct call of a scorer method, or NoCall
    result,             \* what that call returned
    earlier,            \* an earlier call kept by the caller, with its result
    analyses,           \* the caller's sequence of results for a summary
    summary             \* what the summary function returned

vars == <<sentiment_service, voice_service, facial_service, request, response,
          invoked, server_log, call, result, earlier, analyses, summary>>

-----------------------------------------------------------------------------
(* Bounds of the model *)

\* Longest text, in lexemes, of the scorer-level specifications.
MaxLen == 3

\* Each random.uniform(a, b) is sampled at a + (b-a)*k/UniformSteps, k in 0..UniformSteps.
UniformSteps == 1

\* Longest sequence of analyses handed to a summary function.
MaxAnalyses == 3

\* The secondary expression is drawn among the first MaxSecondary candidates.
MaxSecondary == 1

-----------------------------------------------------------------------------
(* JSON values, as Python sees them after request.get_json() *)

Str(s)  == [t |-> "str",  s |-> s,    n |-> 0]
Num(n)  == [t |-> "num",  s |-> <<>>, n |-> n]
Arr(n)  == [t |-> "list", s |-> <<>>, n |-> n]
None    == [t |-> "None", s |-> <<>>, n |-> 0]
\* The key is not in the JSON object.
Absent  == [t |-> "absent", s |-> <<>>, n |-> 0]

\* Python truthiness: `not x` is ~Truthy(x).
Truthy(v) ==
    CASE v.t = "str"  -> v.s # <<>>
      [] v.t = "num"  -> v.n # 0
      [] v.t = "list" -> v.n > 0
      [] OTHER        -> FALSE

\* dict.get(key, default)
Get(data, key, default) == IF data[key] = Absent THEN default ELSE data[key]

\* round(a/b, digits) on exact rationals, b # 0: nearest integer to a/b, ties to even.
RoundDiv(a, b) ==
    LET p == IF b < 0 THEN 0 - a ELSE a
        q == IF b < 0 THEN 0 - b ELSE b
        f == p \div q
        r == p % q
    IN  IF 2 * r < q THEN f
        ELSE IF 2 * r > q THEN f + 1
        ELSE IF f % 2 = 0 THEN f ELSE f + 1

\* body(x) for x the value of v: a local name bound to a value computed once
Bind(v, body(_)) == CHOOSE y \in {body(x) : x \in {v}} : TRUE

Sum(f, S) ==
    LET RECURSIVE Acc(_)
        Acc(T) == IF T = {} THEN 0
                  ELSE LET x == CHOOSE y \in T : TRUE IN f[x] + Acc(T \ {x})
    IN  Acc(S)

-----------------------------------------------------------------------------
(* Texts *)

Space == " "
\* The lexeme of the character U+2014
EmDash == "em-dash"
Punctuation == {",", "."}
IsWord(l) == l # Space /\ l # EmDash /\ l \notin Punctuation

\* str.lower() of one lexeme
LowerLexeme(l) ==
    CASE l = "Um"         -> "um"
      [] l = "Definitely" -> "definitely"
      [] l = "Good"       -> "good"
      [] l = "I"          -> "i"
      [] OTHER            -> l

Lower(text) == [i \in 1..Len(text) |-> LowerLexeme(text[i])]

\* str.strip() leaves something
NonBlank(text) == \E i \in 1..Len(text) : text[i] # Space

\* str.split(): the maximal runs of non-space lexemes, in order
RECURSIVE SplitFrom(_, _, _)
SplitFrom(text, i, cur) ==
    IF i > Len(text)
    THEN IF cur = <<>> THEN <<>> ELSE <<cur>>
    ELSE IF text[i] = Space
         THEN (IF cur = <<>> THEN <<>> ELSE <<cur>>) \o SplitFrom(text, i + 1, <<>>)
         ELSE SplitFrom(text, i + 1, Append(cur, text[i]))

Split(text) == SplitFrom(text, 1, <<>>)

\* `word in words` for a whitespace-split token and a set of strings: the set's
\* members are words or phrases with spaces, so only a one-word token can match.
TokenIn(tok, words) == Len(tok) = 1 /\ tok[1] \in words

\* All texts of at most n lexemes over the given words, space and punctuation.
RECURSIVE TextsOfLen(_, _, _)
TextsOfLen(words, seps, n) ==
    IF n = 0 THEN {<<>>}
    ELSE {Append(t, l) : t \in TextsOfLen(words, seps, n - 1), l \in words \cup seps}

WellFormed(words, t) ==
    \A i \in 1..(Len(t) - 1) : ~(t[i] \in words /\ t[i + 1] \in words)

Texts(words, seps, n) ==
    UNION {{t \in TextsOfLen(words, seps, k) : WellFormed(words, t)} : k \in 0..n}

-----------------------------------------------------------------------------
(* Outcomes of a block of Python code: a value, or an exception with its text *)

Ok(v)    == [raised |-> FALSE, value |-> v]
Raise(e) == [raised |-> TRUE,  exc |-> e]

\* A call of a method that logs: it returns v or raises e, having logged `lines`.
Returns(v, lines) == [raised |-> FALSE, value |-> v, log |-> lines]
Raises(e, lines)  == [raised |-> TRUE,  exc |-> e,   log |-> lines]

\* The class name Python prints for the type of v.
TypeName(v) ==
    CASE v.t = "num"  -> "int"
      [] v.t = "list" -> "list"
      [] v.t = "None" -> "NoneType"
      [] OTHER        -> "str"

\* str(e) of the AttributeError raised by v.attr on a value without it
AttributeErrorText(v, attr) ==
    "'" \o TypeName(v) \o "' object has no attribute '" \o attr \o "'"

-----------------------------------------------------------------------------
(* SentimentAnalysisService *)

\* nltk's English stop words (a sample: the list is data of the nltk corpus)
NltkStopWords == {"i", "me", "the", "is", "this", "a", "and", "not", "can"}

interview_stop_words ==
    {"um", "uh", "er", "ah", "like", "you", "know", "so", "well",
     "actually", "basically", "literally", "obviously", "right",
     "okay", "alright", "mean", "sort", "kind", "think", "guess"}

SentimentServiceInit ==
    [stop_words |-> NltkStopWords \cup interview_stop_words,
     confidence_indicators |->
        [high |-> {"definitely", "absolutely", "certainly", "clearly", "exactly",
                   "precisely", "specifically", "confident", "sure", "positive",
                   "convinced", "determined", "decisive", "assertive"},
         low  |-> {"maybe", "perhaps", "possibly", "might", "could", "probably",
                   "unsure", "uncertain", "confused", "doubt", "hesitant",
                   "tentative", "vague", "unclear"}],
     professional_words |->
        {"experience", "skills", "expertise", "knowledge", "proficient",
         "accomplished", "achieved", "successful", "leadership", "management",
         "innovative", "creative", "analytical", "strategic", "efficient",
         "collaborative", "communication", "problem-solving", "results",
         "improvement", "optimization", "development", "implementation"}]

\* re.sub(r'[^\w\s]', ' ', text)
RemovePunctuation(text) ==
    [i \in 1..Len(text) |-> IF text[i] \in Punctuation THEN Space ELSE text[i]]

\* word_tokenize on a text of words and spaces: the words, in order
WordTokenize(text) ==
    LET toks == Split(text) IN [i \in 1..Len(toks) |-> toks[i][1]]

\* ' '.join(tokens)
RECURSIVE Join(_)
Join(tokens) ==
    IF tokens = <<>> THEN <<>>
    ELSE IF Len(tokens) = 1 THEN <<tokens[1]>>
    ELSE <<tokens[1], Space>> \o Join(Tail(tokens))

\* A variant of the method below: the test `len(word) > 2` is left out
filter_text_any_length(self, text) ==
    LET tokens == WordTokenize(RemovePunctuation(Lower(text)))
        Keep(word) == word \notin self.stop_words
    IN  SelectSeq(tokens, Keep)

\* filter_text(text): the first component of the pair it returns
filter_text(self, text) ==
    LET tokens == WordTokenize(RemovePunctuation(Lower(text)))
        Keep(word) == word \notin self.stop_words /\ Len(word) > 2
    IN  SelectSeq(tokens, Keep)

CountIn(tokens, words) == Cardinality({i \in 1..Len(tokens) : tokens[i] \in words})

Max(a, b) == IF a > b THEN a ELSE b

analyze_confidence(self, tokens) ==
    LET high == CountIn(tokens, self.confidence_indicators.high)
        low  == CountIn(tokens, self.confidence_indicators.low)
        n    == Max(Len(tokens), 1)
    IN  [score |-> RoundDiv((high - low) * 1000, n),
         level |-> IF (high - low) * 10 > n THEN "high"
                   ELSE IF (high - low) * 10 < 0 - n THEN "low"
                   ELSE "medium",
         high_confidence_words |-> high,
         low_confidence_words  |-> low]

analyze_professionalism(self, tokens) ==
    LET count == CountIn(tokens, self.professional_words)
        n     == Max(Len(tokens), 1)
    IN  [score |-> RoundDiv(count * 1000, n),
         level |-> IF count * 100 > 15 * n THEN "high"
                   ELSE IF count * 100 > 5 * n THEN "medium"
                   ELSE "low",
         professional_words_count |-> count]

\* TextBlob(filtered_text).sentiment: the mean polarity and subjectivity, in
\* thousandths, of the words the pattern lexicon knows (a sample of its entries)
PatternLexicon == {"good", "bad", "great", "nice"}
PatternPolarity(w) ==
    CASE w = "good" -> 700 [] w = "bad" -> -700 [] w = "nice" -> 600 [] OTHER -> 800
PatternSubjectivity(w) ==
    CASE w = "good" -> 600 [] w = "bad" -> 667 [] w = "nice" -> 1000 [] OTHER -> 750

TextBlobSentiment(tokens) ==
    LET known == {i \in 1..Len(tokens) : tokens[i] \in PatternLexicon}
        n     == Cardinality(known)
    IN  IF n = 0 THEN [polarity |-> 0, subjectivity |-> 0]
        ELSE [polarity     |-> RoundDiv(Sum([i \in known |-> PatternPolarity(tokens[i])], known), n),
              subjectivity |-> RoundDiv(Sum([i \in known |-> PatternSubjectivity(tokens[i])], known), n)]

\* Counter(tokens).most_common(k): by count, descending; ties in order of first occurrence
RECURSIVE MostCommonFrom(_, _, _)
MostCommonFrom(tokens, taken, k) ==
    LET firsts == {i \in 1..Len(tokens) :
                      /\ tokens[i] \notin taken
                      /\ \A j \in 1..(i - 1) : tokens[j] # tokens[i]}
        Count(i) == Cardinality({j \in 1..Len(tokens) : tokens[j] = tokens[i]})
    IN  IF k = 0 \/ firsts = {} THEN <<>>
        ELSE LET best == CHOOSE i \in firsts :
                            \A j \in firsts :
                                Count(i) > Count(j) \/ (Count(i) = Count(j) /\ i <= j)
             IN  <<[word |-> tokens[best], count |-> Count(best)]>>
                 \o MostCommonFrom(tokens, taken \cup {tokens[best]}, k - 1)

MostCommon(tokens, k) == MostCommonFrom(tokens, {}, k)

Abs(x) == IF x < 0 THEN 0 - x ELSE x

\* The try block of analyze_sentiment
analyze_sentiment_try(self, text, timestamp) ==
    IF text.t # "str" THEN Raise(AttributeErrorText(text, "lower"))
    ELSE
    LET filtered_tokens == filter_text(self, text.s)
        filtered_text   == Join(filtered_tokens)
        blob            == TextBlobSentiment(filtered_tokens)
    IN  IF ~NonBlank(filtered_text)
        THEN Ok([timestamp |-> timestamp,
                 error |-> <<"No meaningful content to analyze after filtering">>])
        ELSE Ok([timestamp |-> timestamp,
                 original_text |-> text.s,
                 filtered_text |-> filtered_text,
                 sentiment |->
                    [polarity     |-> blob.polarity,
                     subjectivity |-> blob.subjectivity,
                     category     |-> IF blob.polarity > 100 THEN "positive"
                                      ELSE IF blob.polarity < -100 THEN "negative"
                                      ELSE "neutral",
                     intensity    |-> Abs(blob.polarity)],
                 confidence      |-> analyze_confidence(self, filtered_tokens),
                 professionalism |-> analyze_professionalism(self, filtered_tokens),
                 word_analysis |->
                    [total_words    |-> Len(Split(text.s)),
                     filtered_words |-> Len(filtered_tokens),
                     most_common    |-> MostCommon(filtered_tokens, 5)]])

\* analyze_sentiment(text, timestamp): the except clause turns an exception of
\* the try block into an error record, after logging it
analyze_sentiment(self, text, timestamp) ==
    Bind(analyze_sentiment_try(self, text, timestamp), LAMBDA o :
        IF o.raised
        THEN Returns([timestamp |-> timestamp, error |-> <<"Analysis failed: ", o.exc>>],
                     << <<"Sentiment analysis error: ", o.exc>> >>)
        ELSE Returns(o.value, <<>>))

\* A variant of the operator below: the method adds the words it kept to the
\* stop words of the instance
sentiment_service_learns(self, text, timestamp) ==
    IF text.t # "str" THEN self
    ELSE LET kept == filter_text(self, text.s)
         IN  [self EXCEPT !.stop_words = @ \cup {kept[i] : i \in 1..Len(kept)}]

\* The instance after analyze_sentiment: the method assigns no attribute.
sentiment_service_after(self, text, timestamp) == self

-----------------------------------------------------------------------------
(* VoiceAnalysisService *)

\* The lexemes of a phrase of the filler set
VoiceFillerWords ==
    {<<"um">>, <<"uh">>, <<"er">>, <<"ah">>, <<"like">>, <<"you", " ", "know">>,
     <<"so">>, <<"well">>, <<"actually">>, <<"basically">>, <<"literally">>,
     <<"obviously">>, <<"right">>, <<"okay">>, <<"alright">>, <<"i", " ", "mean">>,
     <<"sort", " ", "of">>, <<"kind", " ", "of">>, <<"you", " ", "see">>,
     <<"let", " ", "me", " ", "think">>,
     <<"how", " ", "do", " ", "i", " ", "put", " ", "this">>,
     <<"what", " ", "i", " ", "mean", " ", "is">>}

VoiceServiceInit ==
    [filler_words |-> VoiceFillerWords,
     confidence_indicators |->
        [strong |-> {"definitely", "absolutely", "certainly", "clearly", "exactly",
                     "precisely", "specifically", "without doubt", "for sure",
                     "undoubtedly", "obviously", "of course"},
         weak   |-> {"maybe", "perhaps", "i think", "i guess", "probably",
                     "sort of", "kind of", "i suppose", "i believe",
                     "it seems", "i feel like", "possibly"}],
     clarity_indicators |->
        [clear   |-> {"first", "second", "third", "next", "then", "finally",
                      "in conclusion", "to summarize", "specifically",
                      "for example", "such as", "in other words"},
         unclear |-> {"stuff", "things", "whatever", "something", "somehow",
                      "somewhere", "whatnot", "and so on", "etcetera"}]]

\* The pattern occurs in the text at position i.
MatchesAt(text, pattern, i) ==
    /\ i + Len(pattern) - 1 <= Len(text)
    /\ \A k \in 1..Len(pattern) : text[i + k - 1] = pattern[k]

\* len(re.findall(pattern, text)) and str.count(pattern): the occurrences found
\* scanning left to right, each search resuming after the previous match
RECURSIVE CountFrom(_, _, _)
CountFrom(text, pattern, i) ==
    IF i > Len(text) THEN 0
    ELSE IF MatchesAt(text, pattern, i)
         THEN 1 + CountFrom(text, pattern, i + Len(pattern))
         ELSE CountFrom(text, pattern, i + 1)

CountOccurrences(text, pattern) == CountFrom(text, pattern, 1)

\* A variant of the method below: the text is not lowercased
detect_filler_words_case_sensitive(self, text) ==
    LET found == {f \in self.filler_words : CountOccurrences(text, f) > 0}
        filler_count == [f \in found |-> CountOccurrences(text, f)]
    IN  [total          |-> Sum(filler_count, found),
         breakdown      |-> filler_count,
         unique_fillers |-> Cardinality(found)]

detect_filler_words(self, text) ==
    LET text_lower == Lower(text)
        found == {f \in self.filler_words : CountOccurrences(text_lower, f) > 0}
        filler_count == [f \in found |-> CountOccurrences(text_lower, f)]
    IN  [total          |-> Sum(filler_count, found),
         breakdown      |-> filler_count,
         unique_fillers |-> Cardinality(found)]

\* len(re.split(r'[.!?]+', text)): one more than the number of runs of terminators
SentenceCount(text) ==
    1 + Cardinality({i \in 1..Len(text) :
                        /\ text[i] \in {".", "!", "?"}
                        /\ (i = 1 \/ text[i - 1] \notin {".", "!", "?"})})

analyze_pauses(self, text) ==
    LET commas     == CountOccurrences(text, <<",">>)
        periods    == CountOccurrences(text, <<".">>)
        semicolons == CountOccurrences(text, <<";">>)
        dashes     == CountOccurrences(text, <<"-", "-">>) + CountOccurrences(text, <<EmDash>>)
        ellipses   == CountOccurrences(text, <<".", ".", ".">>)
        sentences  == SentenceCount(text)
        words      == Len(Split(text))
        total_pauses == commas + periods + semicolons + dashes + ellipses
    IN  [total_pauses |-> total_pauses,
         pause_frequency_per_100_words |-> RoundDiv(total_pauses * 10000, Max(words, 1)),
         pause_breakdown |->
            [commas |-> commas, periods |-> periods, semicolons |-> semicolons,
             dashes |-> dashes, ellipses |-> ellipses],
         average_sentence_length |-> RoundDiv(words * 100, Max(sentences, 1)),
         sentences_count |-> sentences]

CountTokens(toks, words) == Cardinality({i \in 1..Len(toks) : TokenIn(toks[i], words)})

analyze_confidence_clarity(self, text) ==
    LET words   == Split(Lower(text))
        strong_confidence  == CountTokens(words, self.confidence_indicators.strong)
        weak_confidence    == CountTokens(words, self.confidence_indicators.weak)
        clear_indicators   == CountTokens(words, self.clarity_indicators.clear)
        unclear_indicators == CountTokens(words, self.clarity_indicators.unclear)
        n == Max(Len(words), 1)
        confidence_diff == strong_confidence - weak_confidence
        clarity_diff    == clear_indicators - unclear_indicators
    IN  [confidence |->
            [score |-> RoundDiv(confidence_diff * 10000, n),
             level |-> IF confidence_diff * 100 > 2 * n THEN "high"
                       ELSE IF confidence_diff * 100 < 0 - 2 * n THEN "low"
                       ELSE "medium",
             strong_indicators |-> strong_confidence,
             weak_indicators   |-> weak_confidence],
         clarity |->
            [score |-> RoundDiv(clarity_diff * 10000, n),
             level |-> IF clarity_diff * 100 > n THEN "high"
                       ELSE IF clarity_diff * 100 < 0 - n THEN "low"
                       ELSE "medium",
             clear_indicators   |-> clear_indicators,
             unclear_indicators |-> unclear_indicators]]

\* str(e) of the TypeError of `word_count / duration`
DivisionErrorText(duration) ==
    "unsupported operand type(s) for /: 'int' and '" \o TypeName(duration) \o "'"

\* A variant of the operator below: the estimate assumes 150 words per minute
PaceFractionBaseline150(word_count, duration) ==
    IF Truthy(duration)
    THEN IF duration.n > 0
         THEN [num |-> word_count * 600, den |-> duration.n]
         ELSE [num |-> 0 - word_count * 600, den |-> 0 - duration.n]
    ELSE IF word_count > 0
         THEN [num |-> word_count * 150, den |-> word_count]
         ELSE [num |-> 0, den |-> 1]

\* Words per minute as the exact fraction num/den, den > 0.  A duration is in tenths
\* of a second, so word_count / duration * 60 is word_count * 600 / duration.n.
PaceFraction(word_count, duration) ==
    IF Truthy(duration)
    THEN IF duration.n > 0
         THEN [num |-> word_count * 600, den |-> duration.n]
         ELSE [num |-> 0 - word_count * 600, den |-> 0 - duration.n]
    ELSE \* estimated_duration_minutes = word_count / 180
         IF word_count > 0
         THEN [num |-> word_count * 180, den |-> word_count]
         ELSE [num |-> 0, den |-> 1]

\* calculate_speaking_pace, from the word count on
SpeakingPace(word_count, duration) ==
    IF Truthy(duration) /\ duration.t # "num" THEN Raise(DivisionErrorText(duration))
    ELSE
    LET wpm == PaceFraction(word_count, duration)
    IN  Ok([words_per_minute   |-> RoundDiv(wpm.num * 10, wpm.den),
            word_count         |-> word_count,
            duration_seconds   |-> duration,
            estimated_duration |-> ~Truthy(duration),
            pace_category      |-> IF wpm.num < 120 * wpm.den THEN "slow"
                                   ELSE IF wpm.num > 200 * wpm.den THEN "fast"
                                   ELSE "normal"])

calculate_speaking_pace(self, text, duration) == SpeakingPace(Len(Split(text)), duration)

\* The overall score as the exact fraction num/den of the four sub-scores' mean:
\* pace in tenths, filler as filler_num/word_count, the two others from the
\* rounded scores in ten-thousandths.
OverallFraction(speaking_pace, filler_analysis, confidence_clarity) ==
    LET wc           == Max(speaking_pace.word_count, 1)
        pace_score   == IF speaking_pace.pace_category = "normal" THEN 10 ELSE 7
        filler_num   == Max(0, wc - 5 * filler_analysis.total)
        confidence   == confidence_clarity.confidence.score + 10000
        clarity      == confidence_clarity.clarity.score + 10000
    IN  [num |-> pace_score * 2000 * wc + filler_num * 20000 + (confidence + clarity) * wc,
         den |-> 80000 * wc]

\* `overall_score > 0.6` on doubles.  The doubles compare as the exact mean does
\* unless the exact mean is 0.6; then the rounding of the sum, added left to
\* right, decides.  Of the ties the model's texts reach, 0.7 + 1.0 + 0.5 + 0.2
\* rounds to 2.4000000000000004, above 0.6 * 4, and 0.7 + 1.0 + 0.2 + 0.5 does not.
OverallAboveThreeFifths(speaking_pace, filler_analysis, confidence_clarity) ==
    LET overall == OverallFraction(speaking_pace, filler_analysis, confidence_clarity)
    IN  \/ overall.num * 10 > 6 * overall.den
        \/ /\ overall.num * 10 = 6 * overall.den
           /\ speaking_pace.pace_category # "normal"
           /\ filler_analysis.total = 0
           /\ confidence_clarity.confidence.score = 0
           /\ confidence_clarity.clarity.score = 0 - 6000

\* The try block of analyze_voice
analyze_voice_try(self, text, timestamp, duration) ==
    IF text.t # "str" THEN Raise(AttributeErrorText(text, "strip"))
    ELSE IF ~NonBlank(text.s)
    THEN Ok([timestamp |-> timestamp, error |-> <<"No text provided for voice analysis">>])
    ELSE
    LET pace == calculate_speaking_pace(self, text.s, duration)
    IN  IF pace.raised THEN pace
        ELSE
        LET speaking_pace      == pace.value
            filler_analysis    == detect_filler_words(self, text.s)
            pause_analysis     == analyze_pauses(self, text.s)
            confidence_clarity == analyze_confidence_clarity(self, text.s)
            overall == OverallFraction(speaking_pace, filler_analysis, confidence_clarity)
        IN  Ok([timestamp          |-> timestamp,
                speaking_pace      |-> speaking_pace,
                filler_words       |-> filler_analysis,
                pause_analysis     |-> pause_analysis,
                confidence_clarity |-> confidence_clarity,
                overall_voice_quality |->
                    [score  |-> RoundDiv(overall.num * 1000, overall.den),
                     rating |-> IF overall.num * 10 > 8 * overall.den THEN "excellent"
                                ELSE IF OverallAboveThreeFifths(speaking_pace,
                                            filler_analysis, confidence_clarity)
                                THEN "good"
                                ELSE "needs_improvement"]])

\* A variant of the method below: no except clause, the exception leaves the method
analyze_voice_unguarded(self, text, timestamp, duration) ==
    Bind(analyze_voice_try(self, text, timestamp, duration), LAMBDA o :
        IF o.raised THEN Raises(o.exc, <<>>) ELSE Returns(o.value, <<>>))

\* analyze_voice(text, timestamp, duration): the except clause turns an exception
\* of the try block into an error record, after logging it
analyze_voice(self, text, timestamp, duration) ==
    Bind(analyze_voice_try(self, text, timestamp, duration), LAMBDA o :
        IF o.raised
        THEN Returns([timestamp |-> timestamp,
                      error |-> <<"Voice analysis failed: ", o.exc>>],
                     << <<"Voice analysis error: ", o.exc>> >>)
        ELSE Returns(o.value, <<>>))

\* The instance after analyze_voice: the method assigns no attribute.
voice_service_after(self, text, timestamp, duration) == self

-----------------------------------------------------------------------------
(* FacialExpressionService *)

FacialServiceInit ==
    [expressions |-> <<"neutral", "happy", "confident", "focused", "thoughtful",
                       "concerned", "surprised", "confused", "nervous", "engaged">>,
     engagement_levels    |-> <<"low", "medium", "high">>,
     eye_contact_patterns |-> <<"poor", "intermittent", "good", "excellent">>]

HeadTilts == <<"none", "slight_left", "slight_right", "forward">>

\* round(random.uniform(a, b), 3) in thousandths, at sample point k of 0..UniformSteps
Uniform(a, b, k) == a + ((b - a) * k) \div UniformSteps

\* The outcomes of the random module in one call of analyze_facial_expression: the
\* index each random.choice picks, the sample point of each random.uniform whose
\* value is used, and the truth of each comparison of random.random().  The
\* secondary expression is drawn only when has_secondary holds.  K are the sample
\* points, S the outcomes of `random.random() > 0.6`, C the indices of the secondary
\* expression, E, L and T the outcomes of the choice of engagement level, of
\* leaning_forward and of head_tilt.
DrawsOver(K, S, C, E, L, T) ==
    LET Rest(sec, secs, ks) ==
            [primary       : 1..10,
             confidence    : K,
             has_secondary : {sec},
             secondary     : secs,
             secondary_confidence : ks,
             engagement    : E,
             engagement_score : K,
             eye_contact   : 1..4,
             eye_contact_score : K,
             upright       : BOOLEAN,
             leaning_forward : L,
             slouching     : BOOLEAN,
             head_tilt     : T]
    IN  (IF FALSE \in S THEN Rest(FALSE, {1}, {0}) ELSE {})
        \cup (IF TRUE \in S THEN Rest(TRUE, C, K) ELSE {})

FacialDraws == DrawsOver(0..UniformSteps, BOOLEAN, 1..9, 1..3, BOOLEAN, 1..4)

\* The draws of the scorer-level specification: all of them but for the index of
\* the secondary expression.
SampledDraws == DrawsOver(0..UniformSteps, BOOLEAN, 1..MaxSecondary, 1..3, BOOLEAN, 1..4)

\* The draws of the route-level specification: every outcome of the draws that
\* decide the professionalism factors, one outcome of the others.
RouteDraws == DrawsOver({0}, {FALSE}, {1}, {1}, {FALSE}, {1})

\* [e for e in self.expressions if e != primary_expression]
OtherExpressions(self, primary_expression) ==
    LET Differs(e) == e # primary_expression IN SelectSeq(self.expressions, Differs)

\* A variant of the operator below: the slouching test is inverted
ProfessionalismFactorsInverted(upright, eye_contact, primary_expression, slouching) ==
    <<IF upright THEN 10 ELSE 7,
      IF eye_contact \in {"good", "excellent"} THEN 10 ELSE 6,
      IF primary_expression \in {"confident", "focused", "engaged"} THEN 10 ELSE 8,
      IF slouching THEN 10 ELSE 5>>

\* professionalism_factors, in tenths
ProfessionalismFactors(upright, eye_contact, primary_expression, slouching) ==
    <<IF upright THEN 10 ELSE 7,
      IF eye_contact \in {"good", "excellent"} THEN 10 ELSE 6,
      IF primary_expression \in {"confident", "focused", "engaged"} THEN 10 ELSE 8,
      IF ~slouching THEN 10 ELSE 5>>

\* The try block of analyze_facial_expression under the draws d; nothing in it raises
analyze_facial_expression_try(self, timestamp, image_data, d) ==
    LET primary_expression == self.expressions[d.primary]
        confidence         == Uniform(700, 950, d.confidence)
        secondary_expressions ==
            IF d.has_secondary
            THEN <<[expression |-> OtherExpressions(self, primary_expression)[d.secondary],
                    confidence |-> Uniform(300, 600, d.secondary_confidence)]>>
            ELSE <<>>
        engagement_level == self.engagement_levels[d.engagement]
        engagement_score ==
            CASE engagement_level = "low"    -> Uniform(200, 400, d.engagement_score)
              [] engagement_level = "medium" -> Uniform(400, 700, d.engagement_score)
              [] engagement_level = "high"   -> Uniform(700, 900, d.engagement_score)
        eye_contact == self.eye_contact_patterns[d.eye_contact]
        eye_contact_score ==
            CASE eye_contact = "poor"         -> Uniform(100, 300, d.eye_contact_score)
              [] eye_contact = "intermittent" -> Uniform(300, 500, d.eye_contact_score)
              [] eye_contact = "good"         -> Uniform(500, 800, d.eye_contact_score)
              [] eye_contact = "excellent"    -> Uniform(800, 1000, d.eye_contact_score)
        posture_indicators ==
            [upright |-> d.upright, leaning_forward |-> d.leaning_forward,
             slouching |-> d.slouching, head_tilt |-> HeadTilts[d.head_tilt]]
        factors == ProfessionalismFactors(posture_indicators.upright, eye_contact,
                                          primary_expression, posture_indicators.slouching)
        factor_sum == factors[1] + factors[2] + factors[3] + factors[4]
    IN  [timestamp |-> timestamp,
         facial_expression |->
            [primary   |-> [expression |-> primary_expression, confidence |-> confidence],
             secondary |-> secondary_expressions],
         engagement  |-> [level |-> engagement_level, score |-> engagement_score],
         eye_contact |-> [pattern |-> eye_contact, score |-> eye_contact_score],
         posture     |-> posture_indicators,
         professionalism |->
            [score  |-> RoundDiv(factor_sum * 1000, 10 * Len(factors)),
             rating |-> IF factor_sum > 8 * Len(factors) THEN "excellent"
                        ELSE IF factor_sum > 6 * Len(factors) THEN "good"
                        ELSE "needs_improvement"],
         analysis_type   |-> "mockup",
         image_processed |-> Truthy(image_data)]

\* analyze_facial_expression(timestamp, image_data) under the draws d
analyze_facial_expression(self, timestamp, image_data, d) ==
    Returns(analyze_facial_expression_try(self, timestamp, image_data, d), <<>>)

\* The instance after analyze_facial_expression: the method assigns no attribute.
facial_service_after(self, timestamp, image_data) == self

-----------------------------------------------------------------------------
(* The summary functions *)

\* A variant of the operator below: the entries with an error are kept
AllAnalyses(history) == history

\* [a for a in analyses if 'error' not in a]
ValidAnalyses(history) ==
    LET NoError(a) == "error" \notin DOMAIN a IN SelectSeq(history, NoError)

\* Some entry lacks a key the summary reads: the KeyError Python raises
MissingKey(entries, keys) ==
    \E i \in 1..Len(entries) : \E k \in keys : k \notin DOMAIN entries[i]

RECURSIVE SumSeq(_)
SumSeq(q) == IF q = <<>> THEN 0 ELSE Head(q) + SumSeq(Tail(q))

\* The sum of the fractions q[i].num / q[i].den as one fraction
RECURSIVE SumFractions(_)
SumFractions(q) ==
    IF q = <<>> THEN [num |-> 0, den |-> 1]
    ELSE LET rest == SumFractions(Tail(q))
         IN  [num |-> Head(q).num * rest.den + rest.num * Head(q).den,
              den |-> Head(q).den * rest.den]

\* `hi - lo > 0.2` on the doubles of the means hi_sum/hi_len and lo_sum/lo_len
\* (sums in thousandths).  The doubles compare as the exact means do unless the
\* exact difference is 0.2; then the rounding of the operands decides.  Of the
\* tied means that halves of at most two of the model's polarities can form, only
\* 0.8 - 0.6 rounds above 0.2 (to 0.20000000000000007); 0.6 - 0.4, for one,
\* rounds below it.
DoubleExceedsByOneFifth(hi_sum, hi_len, lo_sum, lo_len) ==
    \/ hi_sum * lo_len - lo_sum * hi_len > 200 * hi_len * lo_len
    \/ /\ hi_sum * lo_len - lo_sum * hi_len = 200 * hi_len * lo_len
       /\ hi_sum = 800 * hi_len
       /\ lo_sum = 600 * lo_len

\* The trend of the polarities (thousandths), in the caller's order
SentimentTrend(polarities) ==
    LET n      == Len(polarities)
        half   == n \div 2
        first  == SumSeq(SubSeq(polarities, 1, half))
        second == SumSeq(SubSeq(polarities, half + 1, n))
    IN  IF n > 1
        THEN IF DoubleExceedsByOneFifth(second, n - half, first, half)
             THEN "improving"
             ELSE IF DoubleExceedsByOneFifth(first, half, second, n - half)
             THEN "declining"
             ELSE "stable"
        ELSE "stable"

get_overall_sentiment_summary(self, history) ==
    LET valid_analyses == ValidAnalyses(history)
        n == Len(valid_analyses)
        polarities == [i \in 1..n |-> valid_analyses[i].sentiment.polarity]
    IN  IF history = <<>> THEN Ok(None)
        ELSE IF valid_analyses = <<>>
        THEN Ok([error |-> <<"No valid analyses to summarize">>])
        ELSE IF MissingKey(valid_analyses, {"sentiment", "confidence", "professionalism"})
        THEN Raise("KeyError")
        ELSE Ok([summary |->
            [average_polarity        |-> RoundDiv(SumSeq(polarities), n),
             average_subjectivity    |->
                RoundDiv(SumSeq([i \in 1..n |-> valid_analyses[i].sentiment.subjectivity]), n),
             average_confidence      |->
                RoundDiv(SumSeq([i \in 1..n |-> valid_analyses[i].confidence.score]), n),
             average_professionalism |->
                RoundDiv(SumSeq([i \in 1..n |-> valid_analyses[i].professionalism.score]), n),
             sentiment_trend         |-> SentimentTrend(polarities),
             total_analyses          |-> n]])

get_voice_summary(self, history) ==
    LET valid_analyses == ValidAnalyses(history)
        n == Len(valid_analyses)
        filler_rate ==
            SumFractions([i \in 1..n |->
                [num |-> valid_analyses[i].filler_words.total,
                 den |-> Max(valid_analyses[i].speaking_pace.word_count, 1)]])
    IN  IF history = <<>> THEN Ok(None)
        ELSE IF valid_analyses = <<>>
        THEN Ok([error |-> <<"No valid voice analyses to summarize">>])
        ELSE IF MissingKey(valid_analyses, {"speaking_pace", "filler_words",
                                            "confidence_clarity", "overall_voice_quality"})
        THEN Raise("KeyError")
        ELSE Ok([summary |->
            [average_wpm |->
                RoundDiv(SumSeq([i \in 1..n |->
                    valid_analyses[i].speaking_pace.words_per_minute]), n),
             average_filler_rate |-> RoundDiv(filler_rate.num * 10000, filler_rate.den * n),
             average_confidence_score |->
                RoundDiv(SumSeq([i \in 1..n |->
                    valid_analyses[i].confidence_clarity.confidence.score]), 10 * n),
             average_clarity_score |->
                RoundDiv(SumSeq([i \in 1..n |->
                    valid_analyses[i].confidence_clarity.clarity.score]), 10 * n),
             overall_voice_quality |->
                RoundDiv(SumSeq([i \in 1..n |->
                    valid_analyses[i].overall_voice_quality.score]), n),
             total_analyses |-> n]])

get_facial_summary(self, history) ==
    LET valid_analyses == ValidAnalyses(history)
        n == Len(valid_analyses)
        Expr(i) == valid_analyses[i].facial_expression.primary.expression
        seen == {Expr(i) : i \in 1..n}
        expression_counts == [e \in seen |-> Cardinality({i \in 1..n : Expr(i) = e})]
        FirstSeen(e) == CHOOSE i \in 1..n : Expr(i) = e /\ \A j \in 1..(i - 1) : Expr(j) # e
        \* max(expression_counts.items(), key=...): the first of the largest, in the
        \* order the dict received its keys
        most_common_expression ==
            CHOOSE e \in seen :
                \A f \in seen :
                    \/ expression_counts[e] > expression_counts[f]
                    \/ expression_counts[e] = expression_counts[f] /\ FirstSeen(e) <= FirstSeen(f)
    IN  IF history = <<>> THEN Ok(None)
        ELSE IF valid_analyses = <<>>
        THEN Ok([error |-> <<"No valid facial analyses to summarize">>])
        ELSE IF MissingKey(valid_analyses, {"facial_expression", "engagement",
                                            "eye_contact", "professionalism"})
        THEN Raise("KeyError")
        ELSE Ok([summary |->
            [most_common_expression |-> most_common_expression,
             expression_frequency   |-> expression_counts[most_common_expression],
             average_engagement     |->
                RoundDiv(SumSeq([i \in 1..n |-> valid_analyses[i].engagement.score]), n),
             average_eye_contact    |->
                RoundDiv(SumSeq([i \in 1..n |-> valid_analyses[i].eye_contact.score]), n),
             average_professionalism |->
                RoundDiv(SumSeq([i \in 1..n |-> valid_analyses[i].professionalism.score]), n),
             expression_distribution |-> expression_counts,
             total_analyses |-> n]])

-----------------------------------------------------------------------------
(* app.py: the routes *)

\* What request.get_json() returns: a dict with some of the four keys ("object"),
\* None, a list, or nothing because the body is not JSON ("malformed").
Body(kind, text, timestamp, duration, image_data) ==
    [kind |-> kind, text |-> text, timestamp |-> timestamp,
     duration |-> duration, image_data |-> image_data]

\* str(e) of the exception that `data = request.get_json()` or the first
\* `data.get` raises on a body that is no JSON object; "" when none is raised
BodyErrorText(data) ==
    CASE data.kind = "malformed" -> "400 Bad Request: Failed to decode JSON object"
      [] data.kind = "None"      -> AttributeErrorText(None, "get")
      [] data.kind = "list"      -> AttributeErrorText(Arr(0), "get")
      [] OTHER                   -> ""

\* What a route hands back: the status and the JSON body, the scorers it called in
\* order, and the lines it and the scorers logged.
Reply(status, body, scorers, lines) ==
    [status |-> status, body |-> body, invoked |-> scorers, log |-> lines]

\* The except clause of a route, reached with exception text exc after the
\* scorers called so far logged `lines`
RouteFailure(log_prefix, message, exc, scorers, lines) ==
    Reply(500, [error |-> <<message>>], scorers, Append(lines, <<log_prefix, exc>>))

health_check ==
    Reply(200, [status |-> "OK", message |-> "Python Analysis Server is running",
                services |-> [sentiment |-> TRUE, voice |-> TRUE, facial |-> TRUE]],
          <<>>, <<>>)

\* `if not text:` of the sentiment and voice routes
TextMissing(text) == ~Truthy(text)

analyze_sentiment_route(data) ==
    LET Failure(exc, scorers, lines) ==
            RouteFailure("Sentiment analysis error: ", "Sentiment analysis failed",
                         exc, scorers, lines)
    IN  IF data.kind # "object" THEN Failure(BodyErrorText(data), <<>>, <<>>)
        ELSE
        LET text      == Get(data, "text", Str(<<>>))
            timestamp == Get(data, "timestamp", None)
        IN  IF TextMissing(text)
            THEN Reply(400, [error |-> <<"Text is required">>], <<>>, <<>>)
            ELSE Bind(analyze_sentiment(sentiment_service, text, timestamp), LAMBDA r :
                     IF r.raised THEN Failure(r.exc, <<"analyze_sentiment">>, r.log)
                     ELSE Reply(200, r.value, <<"analyze_sentiment">>, r.log))

analyze_voice_route(data) ==
    LET Failure(exc, scorers, lines) ==
            RouteFailure("Voice analysis error: ", "Voice analysis failed",
                         exc, scorers, lines)
    IN  IF data.kind # "object" THEN Failure(BodyErrorText(data), <<>>, <<>>)
        ELSE
        LET text      == Get(data, "text", Str(<<>>))
            timestamp == Get(data, "timestamp", None)
            duration  == Get(data, "duration", None)
        IN  IF TextMissing(text)
            THEN Reply(400, [error |-> <<"Text is required">>], <<>>, <<>>)
            ELSE Bind(analyze_voice(voice_service, text, timestamp, duration), LAMBDA r :
                     IF r.raised THEN Failure(r.exc, <<"analyze_voice">>, r.log)
                     ELSE Reply(200, r.value, <<"analyze_voice">>, r.log))

\* `if not timestamp:` of the facial route
TimestampMissing(timestamp) == ~Truthy(timestamp)

analyze_facial_route(data, d) ==
    LET Failure(exc, scorers, lines) ==
            RouteFailure("Facial analysis error: ", "Facial analysis failed",
                         exc, scorers, lines)
    IN  IF data.kind # "object" THEN Failure(BodyErrorText(data), <<>>, <<>>)
        ELSE
        LET timestamp  == Get(data, "timestamp", None)
            image_data == Get(data, "image_data", None)
        IN  IF TimestampMissing(timestamp)
            THEN Reply(400, [error |-> <<"Timestamp is required">>], <<>>, <<>>)
            ELSE Bind(analyze_facial_expression(facial_service, timestamp, image_data, d),
                      LAMBDA r :
                     IF r.raised THEN Failure(r.exc, <<"analyze_facial_expression">>, r.log)
                     ELSE Reply(200, r.value, <<"analyze_facial_expression">>, r.log))

\* A variant of the test below: `and` in place of `or`
TextAndTimestampMissing(text, timestamp) == ~Truthy(text) /\ ~Truthy(timestamp)

\* `if not text or not timestamp:` of the comprehensive route
TextOrTimestampMissing(text, timestamp) == ~Truthy(text) \/ ~Truthy(timestamp)

comprehensive_analysis(data, d) ==
    LET Failure(exc, scorers, lines) ==
            RouteFailure("Comprehensive analysis error: ", "Comprehensive analysis failed",
                         exc, scorers, lines)
    IN  IF data.kind # "object" THEN Failure(BodyErrorText(data), <<>>, <<>>)
        ELSE
        LET text       == Get(data, "text", Str(<<>>))
            timestamp  == Get(data, "timestamp", None)
            duration   == Get(data, "duration", None)
            image_data == Get(data, "image_data", None)
            one   == <<"analyze_sentiment">>
            two   == <<"analyze_sentiment", "analyze_voice">>
            three == <<"analyze_sentiment", "analyze_voice", "analyze_facial_expression">>
        IN  IF TextOrTimestampMissing(text, timestamp)
            THEN Reply(400, [error |-> <<"Text and timestamp are required">>], <<>>, <<>>)
            ELSE
            Bind(analyze_sentiment(sentiment_service, text, timestamp),
                 LAMBDA sentiment_result :
            IF sentiment_result.raised
            THEN Failure(sentiment_result.exc, one, sentiment_result.log)
            ELSE
            Bind(analyze_voice(voice_service, text, timestamp, duration),
                 LAMBDA voice_result :
            IF voice_result.raised
            THEN Failure(voice_result.exc, two, sentiment_result.log \o voice_result.log)
            ELSE
            Bind(analyze_facial_expression(facial_service, timestamp, image_data, d),
                 LAMBDA facial_result :
            IF facial_result.raised
            THEN Failure(facial_result.exc, three,
                         sentiment_result.log \o voice_result.log \o facial_result.log)
            ELSE Reply(200,
                       [timestamp |-> timestamp,
                        sentiment |-> sentiment_result.value,
                        voice     |-> voice_result.value,
                        facial    |-> facial_result.value],
                       three,
                       sentiment_result.log \o voice_result.log \o facial_result.log))))

-----------------------------------------------------------------------------
(* The state after construction, and the requests of the route-level specification *)

NoRequest  == [route |-> "none"]
NoResponse == [status |-> 0]
NoCall     == [method |-> "none"]
NoResult   == [none |-> TRUE]

Init ==
    /\ sentiment_service = SentimentServiceInit
    /\ voice_service = VoiceServiceInit
    /\ facial_service = FacialServiceInit
    /\ request = NoRequest
    /\ response = NoResponse
    /\ invoked = <<>>
    /\ server_log = <<>>
    /\ call = NoCall
    /\ result = NoResult
    /\ earlier = NoCall
    /\ analyses = <<>>
    /\ summary = NoResult

\* Words of the sentiment route's texts: a filler in capitals, a stop word, a
\* two-letter word, and words that survive filtering.
SentimentWords == {"Um", "the", "ok", "good", "experience"}

RouteTimestamps == {Absent, None, Num(0), Str(<<>>), Num(17000), Str(<<"t1">>)}

\* Values of `text` of the other routes: missing, null, empty, blank, filtered to
\* nothing, meaningful, and not a string.
RouteTexts ==
    {Absent, None, Str(<<>>), Str(<<" ">>), Str(<<"Um", ",">>),
     Str(<<"good", " ", "experience">>), Num(1230), Arr(2)}

RouteDurations == {Absent, Num(0), Num(-50), Num(5), Num(600), Str(<<"abc">>)}

RouteImages == {Absent, Str(<<>>), Str(<<"img">>)}

NonObjectBodies ==
    {Body(k, Absent, Absent, Absent, Absent) : k \in {"malformed", "None", "list"}}

SentimentBodies ==
    {Body("object", text, timestamp, Absent, Absent) :
        text \in {Str(t) : t \in Texts(SentimentWords, {Space, ","}, MaxLen)}
                 \cup {Absent, None, Num(1230), Arr(2)},
        timestamp \in {Absent, Num(0), Num(17000)}}
    \cup NonObjectBodies

VoiceBodies ==
    {Body("object", text, timestamp, duration, Absent) :
        text \in RouteTexts, timestamp \in {Absent, Num(17000)},
        duration \in RouteDurations}
    \cup NonObjectBodies

FacialBodies ==
    {Body("object", Absent, timestamp, Absent, image_data) :
        timestamp \in RouteTimestamps, image_data \in RouteImages}
    \cup NonObjectBodies

ComprehensiveBodies ==
    {Body("object", text, timestamp, duration, image_data) :
        text \in RouteTexts, timestamp \in RouteTimestamps,
        duration \in {Absent, Num(-50), Num(600), Str(<<"abc">>)},
        image_data \in {Absent, Str(<<"img">>)}}
    \cup NonObjectBodies

-----------------------------------------------------------------------------
(* Actions of the route-level specification: one request at a time *)

scorerVars == <<call, result, earlier, analyses, summary>>

\* The worker serves no request and no method is running.
Idle == request = NoRequest /\ call = NoCall

\* Flask hands the reply r of the route to the client.
Serve(route, data, r) ==
    /\ request' = [route |-> route, data |-> data]
    /\ response' = [status |-> r.status, body |-> r.body]
    /\ invoked' = r.invoked
    /\ server_log' = r.log
    /\ UNCHANGED scorerVars

Called(r, scorer) == \E i \in 1..Len(r.invoked) : r.invoked[i] = scorer

HealthCheck ==
    /\ Idle
    /\ Serve("/health", Body("none", Absent, Absent, Absent, Absent), health_check)
    /\ UNCHANGED <<sentiment_service, voice_service, facial_service>>

AnalyzeSentiment ==
    /\ Idle
    /\ \E data \in SentimentBodies :
        \E r \in {analyze_sentiment_route(data)} :
        /\ Serve("/analyze/sentiment", data, r)
        /\ sentiment_service' =
              IF Called(r, "analyze_sentiment")
              THEN sentiment_service_after(sentiment_service,
                       Get(data, "text", Str(<<>>)), Get(data, "timestamp", None))
              ELSE sentiment_service
    /\ UNCHANGED <<voice_service, facial_service>>

AnalyzeVoice ==
    /\ Idle
    /\ \E data \in VoiceBodies :
        \E r \in {analyze_voice_route(data)} :
        /\ Serve("/analyze/voice", data, r)
        /\ voice_service' =
              IF Called(r, "analyze_voice")
              THEN voice_service_after(voice_service, Get(data, "text", Str(<<>>)),
                       Get(data, "timestamp", None), Get(data, "duration", None))
              ELSE voice_service
    /\ UNCHANGED <<sentiment_service, facial_service>>

AnalyzeFacial ==
    /\ Idle
    /\ \E data \in FacialBodies, d \in RouteDraws :
        \E r \in {analyze_facial_route(data, d)} :
        /\ Serve("/analyze/facial", data, r)
        /\ facial_service' =
              IF Called(r, "analyze_facial_expression")
              THEN facial_service_after(facial_service, Get(data, "timestamp", None),
                       Get(data, "image_data", None))
              ELSE facial_service
    /\ UNCHANGED <<sentiment_service, voice_service>>

ComprehensiveAnalysis ==
    /\ Idle
    /\ \E data \in ComprehensiveBodies, d \in RouteDraws :
        \E r \in {comprehensive_analysis(data, d)} :
        /\ Serve("/analyze/comprehensive", data, r)
        /\ sentiment_service' =
              IF Called(r, "analyze_sentiment")
              THEN sentiment_service_after(sentiment_service,
                       Get(data, "text", Str(<<>>)), Get(data, "timestamp", None))
              ELSE sentiment_service
        /\ voice_service' =
              IF Called(r, "analyze_voice")
              THEN voice_service_after(voice_service, Get(data, "text", Str(<<>>)),
                       Get(data, "timestamp", None), Get(data, "duration", None))
              ELSE voice_service
        /\ facial_service' =
              IF Called(r, "analyze_facial_expression")
              THEN facial_service_after(facial_service, Get(data, "timestamp", None),
                       Get(data, "image_data", None))
              ELSE facial_service

\* The response has been sent; the worker waits for the next request.
NextRequest ==
    /\ request # NoRequest
    /\ request' = NoRequest
    /\ response' = NoResponse
    /\ invoked' = <<>>
    /\ server_log' = <<>>
    /\ UNCHANGED <<sentiment_service, voice_service, facial_service>>
    /\ UNCHANGED scorerVars

Next ==
    \/ HealthCheck
    \/ AnalyzeSentiment
    \/ AnalyzeVoice
    \/ AnalyzeFacial
    \/ ComprehensiveAnalysis
    \/ NextRequest

Spec == Init /\ [][Next]_vars

-----------------------------------------------------------------------------
(* Scorer-level specifications: a caller invokes one method of a service *)

httpVars == <<request, response, invoked, server_log>>

Args(method, text, timestamp, duration, image_data) ==
    [method |-> method, text |-> text, timestamp |-> timestamp,
     duration |-> duration, image_data |-> image_data]

CallSentiment(texts, timestamps) ==
    /\ Idle
    /\ \E text \in texts, timestamp \in timestamps :
        /\ call' = Args("analyze_sentiment", text, timestamp, None, None)
        /\ result' = analyze_sentiment(sentiment_service, text, timestamp)
        /\ sentiment_service' = sentiment_service_after(sentiment_service, text, timestamp)
    /\ UNCHANGED <<voice_service, facial_service, earlier, analyses, summary>>
    /\ UNCHANGED httpVars

CallVoice(texts, timestamps, durations) ==
    /\ Idle
    /\ \E text \in texts, timestamp \in timestamps, duration \in durations :
        /\ call' = Args("analyze_voice", text, timestamp, duration, None)
        /\ result' = analyze_voice(voice_service, text, timestamp, duration)
        /\ voice_service' = voice_service_after(voice_service, text, timestamp, duration)
    /\ UNCHANGED <<sentiment_service, facial_service, earlier, analyses, summary>>
    /\ UNCHANGED httpVars

CallFacial(timestamps, images, draws) ==
    /\ Idle
    /\ \E timestamp \in timestamps, image_data \in images, d \in draws :
        /\ call' = Args("analyze_facial_expression", None, timestamp, None, image_data)
        /\ result' = analyze_facial_expression(facial_service, timestamp, image_data, d)
        /\ facial_service' = facial_service_after(facial_service, timestamp, image_data)
    /\ UNCHANGED <<sentiment_service, voice_service, earlier, analyses, summary>>
    /\ UNCHANGED httpVars

\* The caller drops the result.
Return ==
    /\ call # NoCall
    /\ call' = NoCall
    /\ result' = NoResult
    /\ summary' = NoResult
    /\ analyses' = <<>>
    /\ UNCHANGED <<sentiment_service, voice_service, facial_service, earlier>>
    /\ UNCHANGED httpVars

\* The caller keeps the call and its result, as spec'd for its history of analyses.
Keep ==
    /\ call # NoCall
    /\ earlier' = [call |-> call, result |-> result]
    /\ call' = NoCall
    /\ result' = NoResult
    /\ UNCHANGED <<sentiment_service, voice_service, facial_service, analyses, summary>>
    /\ UNCHANGED httpVars

(* The sentiment scorer, called directly and through its route *)

SentimentTexts ==
    {Str(t) : t \in Texts(SentimentWords, {Space, ","}, MaxLen)} \cup {Num(1230), Arr(2)}

SentimentCall == CallSentiment(SentimentTexts, {None, Num(17000)})

NextSentiment == SentimentCall \/ Return \/ AnalyzeSentiment \/ NextRequest

SpecSentiment == Init /\ [][NextSentiment]_vars

(* The voice scorer *)

\* A filler in capitals, a filler, a strong indicator, an unclear indicator, a plain word
VoiceWords == {"Um", "so", "definitely", "stuff", "good"}

\* Five-word texts with three unclear, or three weak, indicator words
VoiceLongTexts ==
    {<<"stuff", " ", "things", " ", "whatever", " ", "good", " ", "good">>,
     <<"maybe", " ", "perhaps", " ", "probably", " ", "good", " ", "good">>}

VoiceTexts ==
    {Str(t) : t \in Texts(VoiceWords, {Space, ","}, MaxLen) \cup VoiceLongTexts}
    \cup {Num(1230)}

\* Durations in tenths of a second: omitted, zero, negative, some positive ones
\* (0.3 s, 0.5 s, 0.7 s, 1 s, 60 s), and a string
VoiceDurations ==
    {None, Num(0), Num(-50), Num(3), Num(5), Num(7), Num(10), Num(600), Str(<<"abc">>)}

VoiceCall == CallVoice(VoiceTexts, {Num(17000)}, VoiceDurations)

NextVoice == VoiceCall \/ Return

SpecVoice == Init /\ [][NextVoice]_vars

(* The facial scorer *)

FacialCall == CallFacial({Num(17000)}, {None, Str(<<"img">>)}, SampledDraws)

NextFacial == FacialCall \/ Return

SpecFacial == Init /\ [][NextFacial]_vars

(* Repeated calls of the sentiment and voice scorers on one pair of instances *)

RepeatTexts ==
    {Str(<<>>), Str(<<"Um", ",">>), Str(<<"good", " ", "experience">>),
     Str(<<"so", " ", "definitely">>), Num(1230)}

RepeatSentiment == CallSentiment(RepeatTexts, {None, Num(17000)})

RepeatVoice == CallVoice(RepeatTexts, {None, Num(17000)}, {None, Num(5), Str(<<"abc">>)})

NextRepeat == RepeatSentiment \/ RepeatVoice \/ Keep \/ Return

SpecRepeat == Init /\ [][NextRepeat]_vars

(* detect_filler_words, called directly on texts with one- and two-word fillers *)

FillerWords == {"Um", "so", "you", "know", "good"}

FillerTexts == Texts(FillerWords, {Space, ","}, MaxLen)

CallFillers ==
    /\ Idle
    /\ \E text \in FillerTexts :
        /\ call' = Args("detect_filler_words", Str(text), None, None, None)
        /\ result' = Returns(detect_filler_words(voice_service, text), <<>>)
    /\ UNCHANGED <<sentiment_service, voice_service, facial_service,
                   earlier, analyses, summary>>
    /\ UNCHANGED httpVars

NextFillers == CallFillers \/ Return

SpecFillers == Init /\ [][NextFillers]_vars

(* The summary functions, on sequences of results of their scorer *)

RECURSIVE SeqsOfLen(_, _)
SeqsOfLen(S, n) ==
    IF n = 0 THEN {<<>>} ELSE {Append(q, x) : q \in SeqsOfLen(S, n - 1), x \in S}

SeqsUpTo(S, n) == UNION {SeqsOfLen(S, k) : k \in 0..n}

\* Results of analyze_sentiment: two error records (filtered to nothing, not a
\* string) and results of polarity 0.7, -0.7, 0, 0.6 and 0.8
SentimentResults ==
    {analyze_sentiment(SentimentServiceInit, text, Num(17000)).value :
        text \in {Str(<<"Um", ",">>), Num(1230), Str(<<"good", " ", "experience">>),
                  Str(<<"bad", " ", "maybe">>), Str(<<"definitely", " ", "experience">>),
                  Str(<<"nice">>), Str(<<"great">>)}}

\* Results of analyze_voice: error records (blank text, a string as duration) and
\* results with and without fillers, at three paces
VoiceResults ==
    {analyze_voice(VoiceServiceInit, text, Num(17000), duration).value :
        text \in {Str(<<" ">>), Str(<<"Um", ",", " ", "so">>),
                  Str(<<"definitely", " ", "good", " ", "stuff">>)},
        duration \in {None, Num(5), Num(600), Str(<<"abc">>)}}

\* Results of analyze_facial_expression, and the record its except clause returns
FacialResults ==
    {analyze_facial_expression(FacialServiceInit, Num(17000), None, d).value :
        d \in {e \in RouteDraws : e.primary \in {1, 3} /\ e.eye_contact \in {1, 4}
                                  /\ e.upright /\ ~e.slouching}}
    \cup {[timestamp |-> Num(17000), error |-> <<"Facial analysis failed: ", "error">>]}

Summarize(method, entries, outcome) ==
    /\ Idle
    /\ call' = Args(method, None, None, None, None)
    /\ analyses' = entries
    /\ summary' = outcome
    /\ UNCHANGED <<sentiment_service, voice_service, facial_service, result, earlier>>
    /\ UNCHANGED httpVars

SentimentSummary ==
    \E entries \in SeqsUpTo(SentimentResults, MaxAnalyses) :
        Summarize("get_overall_sentiment_summary", entries,
                  get_overall_sentiment_summary(sentiment_service, entries))

VoiceSummary ==
    \E entries \in SeqsUpTo(VoiceResults, MaxAnalyses) :
        Summarize("get_voice_summary", entries, get_voice_summary(voice_service, entries))

FacialSummary ==
    \E entries \in SeqsUpTo(FacialResults, MaxAnalyses) :
        Summarize("get_facial_summary", entries, get_facial_summary(facial_service, entries))

NextSummary == SentimentSummary \/ VoiceSummary \/ FacialSummary \/ Return

SpecSummary == Init /\ [][NextSummary]_vars

-----------------------------------------------------------------------------
(* Properties of the routes *)

SentimentKeys ==
    {"timestamp", "original_text", "filtered_text", "sentiment", "confidence",
     "professionalism", "word_analysis"}

VoiceKeys ==
    {"timestamp", "speaking_pace", "filler_words", "pause_analysis",
     "confidence_clarity", "overall_voice_quality"}

FacialKeys ==
    {"timestamp", "facial_expression", "engagement", "eye_contact", "posture",
     "professionalism", "analysis_type", "image_processed"}

ErrorKeys == {"timestamp", "error"}

\* The request is a JSON object sent to the route.
ObjectSentTo(route) ==
    /\ request # NoRequest
    /\ request.route = route
    /\ request.data.kind = "object"

\* C1: a comprehensive request whose text is missing or empty, or whose timestamp
\* is missing, is answered 400 with an `error` field, and no scorer is invoked.
C1_Rejected ==
    (/\ ObjectSentTo("/analyze/comprehensive")
     /\ \/ request.data.text \in {Absent, Str(<<>>)}
        \/ request.data.timestamp = Absent)
    => /\ response.status = 400
       /\ "error" \in DOMAIN response.body
       /\ invoked = <<>>

\* An empty text with a usable timestamp was rejected without calling a scorer.
C1_Witness ==
    /\ ObjectSentTo("/analyze/comprehensive")
    /\ request.data.text = Str(<<>>)
    /\ Truthy(request.data.timestamp)
    /\ response.status = 400
    /\ invoked = <<>>

\* C2: every facial request that supplies a timestamp value (such as 0 or the
\* empty string) is passed to the facial scorer and answered with its result.
C2_Claim ==
    (/\ ObjectSentTo("/analyze/facial")
     /\ request.data.timestamp \notin {Absent, None})
    => /\ response.status = 200
       /\ invoked = <<"analyze_facial_expression">>
       /\ DOMAIN response.body = FacialKeys

\* The request passed the validation of the comprehensive route.
C3_Validated ==
    /\ ObjectSentTo("/analyze/comprehensive")
    /\ Truthy(request.data.text)
    /\ Truthy(request.data.timestamp)

\* C3: a validated comprehensive request is answered 200 with exactly the keys
\* timestamp, sentiment, voice and facial; each scorer returned its full result or
\* a record {timestamp, error}; the sentiment field is what the sentiment scorer
\* returns for (text, timestamp) and the voice field what the voice scorer returns
\* for (text, timestamp, duration), whatever happened to the other scorers.
C3_Degrades ==
    C3_Validated =>
        LET data == request.data
            duration == Get(data, "duration", None)
        IN  /\ response.status = 200
            /\ DOMAIN response.body = {"timestamp", "sentiment", "voice", "facial"}
            /\ invoked = <<"analyze_sentiment", "analyze_voice", "analyze_facial_expression">>
            /\ response.body.timestamp = data.timestamp
            /\ DOMAIN response.body.sentiment \in {SentimentKeys, ErrorKeys}
            /\ DOMAIN response.body.voice \in {VoiceKeys, ErrorKeys}
            /\ DOMAIN response.body.facial \in {FacialKeys, ErrorKeys}
            /\ response.body.sentiment =
                   analyze_sentiment(sentiment_service, data.text, data.timestamp).value
            /\ (duration.t \in {"None", "num"} /\ data.text.t = "str" /\ NonBlank(data.text.s))
                   => DOMAIN response.body.voice = VoiceKeys
            /\ DOMAIN response.body.facial = FacialKeys

\* The voice scorer failed on a string duration while the sentiment scorer succeeded.
C3_Witness ==
    /\ C3_Validated
    /\ request.data.duration = Str(<<"abc">>)
    /\ response.status = 200
    /\ DOMAIN response.body.voice = ErrorKeys
    /\ DOMAIN response.body.sentiment = SentimentKeys

ErrorPartsOf(rec) ==
    IF "error" \in DOMAIN rec THEN {rec.error[i] : i \in 1..Len(rec.error)} ELSE {}

\* The parts of every `error` message of the response body
BodyErrorParts ==
    IF request = NoRequest THEN {}
    ELSE ErrorPartsOf(response.body)
         \cup (IF request.route = "/analyze/comprehensive" /\ response.status = 200
               THEN ErrorPartsOf(response.body.sentiment)
                    \cup ErrorPartsOf(response.body.voice)
                    \cup ErrorPartsOf(response.body.facial)
               ELSE {})

\* str(e) of the exceptions logged while serving the request
LoggedExceptions == {server_log[i][2] : i \in 1..Len(server_log)}

\* C4: the text of an exception raised while serving a request is in the log only,
\* never in the response body.
C4_Claim == LoggedExceptions \cap BodyErrorParts = {}

\* Every word of the text is a stop word or at most two characters long.
AllFiltered(t) ==
    \A i \in 1..Len(t) :
        IsWord(t[i]) =>
            \/ LowerLexeme(t[i]) \in SentimentServiceInit.stop_words
            \/ Len(LowerLexeme(t[i])) <= 2

ErrorOnly(v) ==
    /\ "error" \in DOMAIN v
    /\ DOMAIN v \cap {"sentiment", "confidence", "professionalism", "word_analysis"} = {}

\* C5: for a text that is empty, blank or filtered to nothing, analyze_sentiment
\* returns a record with `error` and without `sentiment`; when such a text is not
\* empty and is sent to /analyze/sentiment, the answer is 200 with that record.
C5_NoContent ==
    /\ (/\ call # NoCall
        /\ call.method = "analyze_sentiment"
        /\ call.text.t = "str"
        /\ AllFiltered(call.text.s))
       => (~result.raised /\ ErrorOnly(result.value))
    /\ (/\ ObjectSentTo("/analyze/sentiment")
        /\ request.data.text.t = "str"
        /\ request.data.text.s # <<>>
        /\ AllFiltered(request.data.text.s))
       => (response.status = 200 /\ ErrorOnly(response.body))

\* A text of a filler and a two-letter word was sent to the route and answered 200
\* with the embedded error.
C5_Witness ==
    /\ ObjectSentTo("/analyze/sentiment")
    /\ request.data.text = Str(<<"Um", " ", "ok">>)
    /\ response.status = 200
    /\ ErrorOnly(response.body)

-----------------------------------------------------------------------------
(* Properties of the voice scorer *)

\* The number of maximal runs of non-space lexemes of a text
WordRuns(t) ==
    Cardinality({i \in 1..Len(t) : t[i] # Space /\ (i = 1 \/ t[i - 1] = Space)})

\* analyze_voice was called on a text that is not blank.
VoiceCalled ==
    /\ call # NoCall
    /\ call.method = "analyze_voice"
    /\ call.text.t = "str"
    /\ NonBlank(call.text.s)

\* C6: without a duration the pace is 180.0 words per minute, "normal" and
\* estimated, whatever the word count; with a positive duration (n tenths of a
\* second) words_per_minute is word_count/duration*60 to one decimal, "slow" below
\* 120, "fast" above 200 and "normal" otherwise; 180 words in 60 s give 180.0.
C6_Pace ==
    /\ (VoiceCalled /\ call.duration = None) =>
            /\ ~result.raised
            /\ DOMAIN result.value = VoiceKeys
            /\ result.value.speaking_pace.words_per_minute = 1800
            /\ result.value.speaking_pace.pace_category = "normal"
            /\ result.value.speaking_pace.estimated_duration
    /\ (VoiceCalled /\ call.duration.t = "num" /\ call.duration.n > 0) =>
            LET n  == call.duration.n
                wc == WordRuns(call.text.s)
            IN  /\ ~result.raised
                /\ DOMAIN result.value = VoiceKeys
                /\ result.value.speaking_pace.word_count = wc
                /\ 2 * Abs(result.value.speaking_pace.words_per_minute * n - wc * 6000) <= n
                /\ result.value.speaking_pace.pace_category =
                       IF wc * 600 < 120 * n THEN "slow"
                       ELSE IF wc * 600 > 200 * n THEN "fast"
                       ELSE "normal"
    /\ SpeakingPace(180, Num(600)).value.words_per_minute = 1800

\* Two words without a duration were rated 180.0 words per minute.
C6_Witness ==
    /\ VoiceCalled
    /\ call.duration = None
    /\ result.value.speaking_pace.word_count = 2
    /\ result.value.speaking_pace.words_per_minute = 1800

\* C7: a duration <= 0 is treated as not provided: the pace block and the overall
\* quality are those of the call without a duration, and the rate is not negative.
C7_Claim ==
    (VoiceCalled /\ call.duration.t = "num" /\ call.duration.n <= 0) =>
        /\ ~result.raised
        /\ DOMAIN result.value = VoiceKeys
        /\ result.value.speaking_pace.words_per_minute = 1800
        /\ result.value.speaking_pace.pace_category = "normal"
        /\ result.value.speaking_pace.estimated_duration
        /\ result.value.overall_voice_quality =
               analyze_voice(voice_service, call.text, call.timestamp, None)
                   .value.overall_voice_quality

-----------------------------------------------------------------------------
(* Properties of the facial scorer *)

\* C8: whatever the draws, the facial result has the same keys, analysis_type
\* "mockup", a primary confidence in [0.7, 0.95] and a professionalism score in
\* [0.5, 1.0] that is the mean of the four factors read off the result itself.
C8_Facial ==
    (call # NoCall /\ call.method = "analyze_facial_expression") =>
        /\ ~result.raised
        /\ DOMAIN result.value = FacialKeys
        /\ LET v == result.value
               upright    == IF v.posture.upright THEN 1000 ELSE 700
               eye        == IF v.eye_contact.pattern \in {"good", "excellent"}
                             THEN 1000 ELSE 600
               expression == IF v.facial_expression.primary.expression
                                    \in {"confident", "focused", "engaged"}
                             THEN 1000 ELSE 800
               slouching  == IF ~v.posture.slouching THEN 1000 ELSE 500
           IN  /\ v.analysis_type = "mockup"
               /\ DOMAIN v.facial_expression = {"primary", "secondary"}
               /\ DOMAIN v.facial_expression.primary = {"expression", "confidence"}
               /\ DOMAIN v.engagement = {"level", "score"}
               /\ DOMAIN v.eye_contact = {"pattern", "score"}
               /\ DOMAIN v.posture = {"upright", "leaning_forward", "slouching", "head_tilt"}
               /\ DOMAIN v.professionalism = {"score", "rating"}
               /\ v.facial_expression.primary.confidence >= 700
               /\ v.facial_expression.primary.confidence <= 950
               /\ v.professionalism.score >= 500
               /\ v.professionalism.score <= 1000
               /\ 4 * v.professionalism.score = upright + eye + expression + slouching

\* The draws gave the largest confidence and the smallest professionalism score.
C8_Witness ==
    /\ call # NoCall
    /\ call.method = "analyze_facial_expression"
    /\ result.value.facial_expression.primary.confidence = 950
    /\ result.value.professionalism.score = 650
    /\ result.value.posture.slouching

-----------------------------------------------------------------------------
(* Properties of repeated calls *)

\* C9: a call of the sentiment or voice scorer with the arguments of a call made
\* earlier on the same instances returns the same result, and no call changes
\* the lexicon sets of the instances.
C9_Repeatable ==
    /\ sentiment_service = SentimentServiceInit
    /\ voice_service = VoiceServiceInit
    /\ (call # NoCall /\ earlier # NoCall /\ earlier.call = call)
           => earlier.result = result

\* A successful sentiment analysis was repeated after a kept one.
C9_Witness ==
    /\ call # NoCall
    /\ earlier # NoCall
    /\ earlier.call = call
    /\ call.method = "analyze_sentiment"
    /\ DOMAIN result.value = SentimentKeys
    /\ earlier.result = result

-----------------------------------------------------------------------------
(* Properties of the summary functions *)

SummaryMethods ==
    {"get_overall_sentiment_summary", "get_voice_summary", "get_facial_summary"}

\* The positions of the entries without an error
ValidPositions == {i \in 1..Len(analyses) : "error" \notin DOMAIN analyses[i]}

\* `mean` is the mean of f over the valid positions, in units of 1/scale of f's
\* unit, to the nearest integer.
IsMean(mean, f, scale) ==
    LET n == Cardinality(ValidPositions)
    IN  2 * Abs(mean * scale * n - Sum(f, ValidPositions)) <= scale * n

\* The product of f over the set S
RECURSIVE Product(_, _)
Product(f, S) ==
    IF S = {} THEN 1
    ELSE LET x == CHOOSE y \in S : TRUE IN f[x] * Product(f, S \ {x})

\* `rate` is the mean over the valid positions of fillers per word, as a
\* percentage in hundredths, to the nearest integer.
IsMeanFillerRate(rate) ==
    LET n      == Cardinality(ValidPositions)
        words  == [i \in ValidPositions |-> Max(analyses[i].speaking_pace.word_count, 1)]
        common == Product(words, ValidPositions)
        total  == Sum([i \in ValidPositions |->
                         analyses[i].filler_words.total * (common \div words[i])],
                      ValidPositions)
    IN  2 * Abs(rate * n * common - 10000 * total) <= n * common

C10_MeansOf(s) ==
    CASE call.method = "get_overall_sentiment_summary" ->
            /\ IsMean(s.average_polarity,
                      [i \in ValidPositions |-> analyses[i].sentiment.polarity], 1)
            /\ IsMean(s.average_subjectivity,
                      [i \in ValidPositions |-> analyses[i].sentiment.subjectivity], 1)
            /\ IsMean(s.average_confidence,
                      [i \in ValidPositions |-> analyses[i].confidence.score], 1)
            /\ IsMean(s.average_professionalism,
                      [i \in ValidPositions |-> analyses[i].professionalism.score], 1)
      [] call.method = "get_voice_summary" ->
            /\ IsMean(s.average_wpm,
                      [i \in ValidPositions |-> analyses[i].speaking_pace.words_per_minute], 1)
            /\ IsMeanFillerRate(s.average_filler_rate)
            /\ IsMean(s.average_confidence_score,
                      [i \in ValidPositions |->
                          analyses[i].confidence_clarity.confidence.score], 10)
            /\ IsMean(s.average_clarity_score,
                      [i \in ValidPositions |->
                          analyses[i].confidence_clarity.clarity.score], 10)
            /\ IsMean(s.overall_voice_quality,
                      [i \in ValidPositions |-> analyses[i].overall_voice_quality.score], 1)
      [] call.method = "get_facial_summary" ->
            /\ IsMean(s.average_engagement,
                      [i \in ValidPositions |-> analyses[i].engagement.score], 1)
            /\ IsMean(s.average_eye_contact,
                      [i \in ValidPositions |-> analyses[i].eye_contact.score], 1)
            /\ IsMean(s.average_professionalism,
                      [i \in ValidPositions |-> analyses[i].professionalism.score], 1)

\* C10: a summary function does not raise; it returns None for no entries, an
\* error record when every entry has an error, and otherwise a summary whose
\* total_analyses counts the entries without an error and whose means are over them.
C10_Summaries ==
    (call # NoCall /\ call.method \in SummaryMethods) =>
        /\ ~summary.raised
        /\ (analyses = <<>>) => (summary.value = None)
        /\ (analyses # <<>> /\ ValidPositions = {}) => (DOMAIN summary.value = {"error"})
        /\ (ValidPositions # {}) =>
              /\ DOMAIN summary.value = {"summary"}
              /\ summary.value.summary.total_analyses = Cardinality(ValidPositions)
              /\ C10_MeansOf(summary.value.summary)

\* A voice summary over three entries, one of them with an error
C10_Witness ==
    /\ call # NoCall
    /\ call.method = "get_voice_summary"
    /\ Len(analyses) = 3
    /\ Cardinality(ValidPositions) = 2
    /\ ~summary.raised
    /\ summary.value.summary.total_analyses = 2

\* The number of entries without an error up to position i
ValidRank(i) == Cardinality({j \in ValidPositions : j <= i})

\* The sum of the polarities (thousandths) of the valid entries ranked in lo..hi
PolaritySum(lo, hi) ==
    LET within == {i \in ValidPositions : ValidRank(i) >= lo /\ ValidRank(i) <= hi}
    IN  Sum([i \in within |-> analyses[i].sentiment.polarity], within)

\* C11: with n the number of entries without an error, in caller order and split
\* at floor(n/2), sentiment_trend is "improving" exactly when n >= 2 and the mean
\* polarity of the second part exceeds that of the first by more than 0.2,
\* "declining" exactly when n >= 2 and the first exceeds the second by more than
\* 0.2, and "stable" otherwise.
C11_Claim ==
    (call # NoCall /\ call.method = "get_overall_sentiment_summary" /\ ValidPositions # {}) =>
        LET n      == Cardinality(ValidPositions)
            half   == n \div 2
            first  == PolaritySum(1, half)
            second == PolaritySum(half + 1, n)
        IN  /\ ~summary.raised
            /\ summary.value.summary.sentiment_trend =
                  IF n >= 2 /\ second * half - first * (n - half) > 200 * half * (n - half)
                  THEN "improving"
                  ELSE IF n >= 2
                          /\ first * (n - half) - second * half > 200 * half * (n - half)
                  THEN "declining"
                  ELSE "stable"

-----------------------------------------------------------------------------
(* Properties of detect_filler_words *)

\* The positions of the text at which the phrase stands, lexeme for lexeme
PhrasePositions(text, phrase) ==
    {i \in 1..(Len(text) - Len(phrase) + 1) :
        \A k \in 1..Len(phrase) : text[i + k - 1] = phrase[k]}

\* "um, so, I think this is, like, good"
FillerExample ==
    <<"um", ",", " ", "so", ",", " ", "I", " ", "think", " ", "this", " ", "is", ",",
      " ", "like", ",", " ", "good">>

\* C12: each phrase's count is the number of its whole-word occurrences in the
\* lowercased text, breakdown holds exactly the phrases that occur, total is the
\* sum of the counts and unique_fillers the number of breakdown entries; the
\* example text counts um, so and like once each.
C12_Fillers ==
    /\ (call # NoCall /\ call.method = "detect_filler_words") =>
          LET text_lower  == Lower(call.text.s)
              Occurs(f)   == Cardinality(PhrasePositions(text_lower, f))
              breakdown   == result.value.breakdown
          IN  /\ ~result.raised
              /\ DOMAIN result.value = {"total", "breakdown", "unique_fillers"}
              /\ DOMAIN breakdown = {f \in VoiceFillerWords : Occurs(f) >= 1}
              /\ \A f \in DOMAIN breakdown : breakdown[f] = Occurs(f)
              /\ result.value.total = Sum(breakdown, DOMAIN breakdown)
              /\ result.value.unique_fillers = Cardinality(DOMAIN breakdown)
    /\ detect_filler_words(VoiceServiceInit, FillerExample) =
          [total |-> 3,
           breakdown |-> [f \in {<<"um">>, <<"so">>, <<"like">>} |-> 1],
           unique_fillers |-> 3]

\* "Um,so" was analysed: a capitalised filler and a second one, once each
C12_Witness ==
    /\ call # NoCall
    /\ call.method = "detect_filler_words"
    /\ call.text.s = <<"Um", ",", "so">>
    /\ result.value.total = 2
    /\ result.value.unique_fillers = 2

-----------------------------------------------------------------------------
(* Properties of the overall voice quality *)

\* C13: for a non-blank text on which the voice scorer succeeds, the four
\* sub-scores (pace 0.7 or 1.0, max(0, 1 - 5 * fillers / words), (confidence + 1)/2
\* and (clarity + 1)/2) lie in [0, 1], the overall score is their mean to three
\* decimals and lies in [0, 1], and the rating is "excellent" when the mean is
\* above 0.8, "good" when it is above 0.6 and at most 0.8, "needs_improvement"
\* otherwise.  Sub-scores are in units of 1/(20000 * wc).
C13_Claim ==
    (VoiceCalled /\ ~result.raised /\ "error" \notin DOMAIN result.value) =>
        LET v   == result.value
            wc  == Max(v.speaking_pace.word_count, 1)
            one == 20000 * wc
            pace_score   == IF v.speaking_pace.pace_category = "normal"
                            THEN one ELSE 14000 * wc
            filler_score == Max(0, one - 5 * 20000 * v.filler_words.total)
            confidence   == (v.confidence_clarity.confidence.score + 10000) * wc
            clarity      == (v.confidence_clarity.clarity.score + 10000) * wc
            total        == pace_score + filler_score + confidence + clarity
        IN  /\ \A x \in {pace_score, filler_score, confidence, clarity} :
                  x >= 0 /\ x <= one
            /\ 2 * Abs(v.overall_voice_quality.score * 4 * one - 1000 * total) <= 4 * one
            /\ v.overall_voice_quality.score >= 0
            /\ v.overall_voice_quality.score <= 1000
            /\ v.overall_voice_quality.rating =
                  IF total * 10 > 8 * 4 * one THEN "excellent"
                  ELSE IF total * 10 > 6 * 4 * one THEN "good"
                  ELSE "needs_improvement"

-----------------------------------------------------------------------------
(* Properties of image_processed *)

\* C14: in every successful facial result, image_processed is true exactly when
\* the request had an image_data field, whatever the field holds (an empty
\* string included).
C14_Claim ==
    /\ (/\ ObjectSentTo("/analyze/facial")
        /\ response.status = 200
        /\ DOMAIN response.body = FacialKeys)
       => (response.body.image_processed <=> request.data.image_data # Absent)
    /\ (/\ ObjectSentTo("/analyze/comprehensive")
        /\ response.status = 200
        /\ "facial" \in DOMAIN response.body)
       => (response.body.facial.image_processed <=> request.data.image_data # Absent)

-----------------------------------------------------------------------------
(* Properties of analyze_confidence_clarity *)

\* The number of words of the text that are members of the set, whatever stands
\* next to them; a phrase with a space in it is no word of the text
WordOccurrences(text, indicators) ==
    Cardinality({i \in 1..Len(text) : IsWord(text[i]) /\ text[i] \in indicators})

\* The level of the score diff/words against the threshold hundredths/100
IndicatorLevel(diff, words, hundredths) ==
    IF diff * 100 > hundredths * words THEN "high"
    ELSE IF diff * 100 < 0 - hundredths * words THEN "low"
    ELSE "medium"

\* C15: the strong/weak and clear/unclear counts are the numbers of
\* case-insensitive whole-word occurrences of the indicator words, with or without
\* punctuation attached, multi-word indicators never counting; the confidence
\* level is high above 0.02, low below -0.02 and medium otherwise, the clarity
\* level likewise with 0.01.
C15_Claim ==
    (VoiceCalled /\ ~result.raised /\ "error" \notin DOMAIN result.value) =>
        LET text_lower == Lower(call.text.s)
            words      == Max(result.value.speaking_pace.word_count, 1)
            confidence == result.value.confidence_clarity.confidence
            clarity    == result.value.confidence_clarity.clarity
        IN  /\ confidence.strong_indicators =
                  WordOccurrences(text_lower, voice_service.confidence_indicators.strong)
            /\ confidence.weak_indicators =
                  WordOccurrences(text_lower, voice_service.confidence_indicators.weak)
            /\ clarity.clear_indicators =
                  WordOccurrences(text_lower, voice_service.clarity_indicators.clear)
            /\ clarity.unclear_indicators =
                  WordOccurrences(text_lower, voice_service.clarity_indicators.unclear)
            /\ confidence.level =
                  IndicatorLevel(confidence.strong_indicators - confidence.weak_indicators,
                                 words, 2)
            /\ clarity.level =
                  IndicatorLevel(clarity.clear_indicators - clarity.unclear_indicators,
                                 words, 1)

====
